---- MODULE Spec2Model ----
(***************************************************************************)
(* calcmetric: one invocation computes one metric for one project and one  *)
(* time range and materializes the source query's rows in a metric table.  *)
(* The model follows cmd/calcmetric (src/unnamed/part_001) and time.go.    *)
(***************************************************************************)
EXTENDS Integers, Sequences, FiniteSets, TLC

VARIABLES now, tables, inv, runs, res, scope

vars == <<now, tables, inv, runs, res, scope>>

(***************************************************************************)
(* time.Time.  A time is a record [d, s]: d is the day number counted from *)
(* 1970-01-01 and s the second of that day.  time.Now() is read in the     *)
(* local zone and lib.DayStart rebuilds the local year, month and day as   *)
(* a UTC instant, so one civil clock is all the program ever sees.         *)
(***************************************************************************)
SecondsPerDay == 24 * 60 * 60

Time(d, s) == [d |-> d, s |-> s]

\* days from civil, for a month already in 1..12 (the era, year of era and
\* day of year arithmetic of the proleptic Gregorian calendar)
DaysOfEra(era, yoe, doy) ==
    era * 146097 + (yoe * 365 + (yoe \div 4) - (yoe \div 100) + doy) - 719468

DaysOfYear(yy, mp, d) ==
    DaysOfEra(yy \div 400, yy % 400, ((153 * mp + 2) \div 5) + d - 1)

DaysFromCivil(y, m, d) ==
    DaysOfYear(IF m <= 2 THEN y - 1 ELSE y, IF m > 2 THEN m - 3 ELSE m + 9, d)

\* the civil year, month and day of a day number
CivilOfMonth(y0, mm, dd) ==
    [y |-> y0 + (IF mm <= 2 THEN 1 ELSE 0), m |-> mm, d |-> dd]

CivilOfMp(y0, doy, mp) ==
    CivilOfMonth(y0, IF mp < 10 THEN mp + 3 ELSE mp - 9, doy - ((153 * mp + 2) \div 5) + 1)

CivilOfDoy(y0, doy) == CivilOfMp(y0, doy, (5 * doy + 2) \div 153)

CivilOfYoe(era, doe, yoe) ==
    CivilOfDoy(yoe + era * 400, doe - (365 * yoe + (yoe \div 4) - (yoe \div 100)))

CivilOfDoe(era, doe) ==
    CivilOfYoe(era, doe,
               (doe - (doe \div 1460) + (doe \div 36524) - (doe \div 146096)) \div 365)

CivilOfZ(z) == CivilOfDoe(z \div 146097, z % 146097)

Civil(dn) == CivilOfZ(dn + 719468)

Year(t)  == Civil(t.d).y
Month(t) == Civil(t.d).m
Day(t)   == Civil(t.d).d

\* time.Date(y, m, d, 0, 0, sec, 0, UTC): month and day out of range are
\* normalized (month 0 is December of the year before, day 31 of a 30-day
\* month is the 1st of the next one).
Date(y, m, d, sec) ==
    Time(DaysFromCivil(y + ((m - 1) \div 12), ((m - 1) % 12) + 1, 1) + d - 1, sec)

\* t.AddDate(years, months, days)
AddCivil(c, sec, years, months, days) == Date(c.y + years, c.m + months, c.d + days, sec)

AddDate(t, years, months, days) == AddCivil(Civil(t.d), t.s, years, months, days)

\* t.Sub(u) as a number of seconds, and t.Add(-diff)
Sub(t, u) == (t.d - u.d) * SecondsPerDay + (t.s - u.s)

AddSeconds(t, diff) ==
    Time(t.d + ((t.s + diff) \div SecondsPerDay), (t.s + diff) % SecondsPerDay)

TimeLess(t, u) == t.d < u.d \/ (t.d = u.d /\ t.s < u.s)

\* DayStart without the reset of the clock
DayStartKeepsClock(dt) == dt

\* time.Date(dt.Year(), dt.Month(), dt.Day(), 0, 0, 0, 0, time.UTC)
DayStart(dt) == AddCivil(Civil(dt.d), 0, 0, 0, 0)

NextDayStart(dt) == AddDate(DayStart(dt), 0, 0, 1)

\* 0 = Sunday; 1970-01-01 was a Thursday
Weekday(t) == (t.d + 4) % 7

WeekFirstDay == 1

WeekStart(dt) == AddCivil(Civil(dt.d), 0, 0, 0, 0 - ((Weekday(dt) + 7 - WeekFirstDay) % 7))

StartOfMonth(c) == Date(c.y, c.m, 1, 0)

MonthStart(dt) == StartOfMonth(Civil(dt.d))

StartOfQuarter(c) == Date(c.y, ((c.m - 1) \div 3) * 3 + 1, 1, 0)

QuarterStart(dt) == StartOfQuarter(Civil(dt.d))

YearStart(dt) == Date(Year(dt), 1, 1, 0)

(***************************************************************************)
(* Date strings.  A string handed to TimeParseAny is modelled by its       *)
(* shape: the style of its separators ("iso" for 2006-01-02T15:04:05Z,     *)
(* "plain" for the space separated forms) and its numeric fields, year     *)
(* first.  <<>> is a string no layout matches.                             *)
(***************************************************************************)
DateString(style, fields) == [style |-> style, f |-> fields]

\* the layouts TimeParseAny tries, in order: style and number of fields
Formats ==
    << [style |-> "iso",   n |-> 6],
       [style |-> "plain", n |-> 6],
       [style |-> "plain", n |-> 5],
       [style |-> "plain", n |-> 4],
       [style |-> "plain", n |-> 3],
       [style |-> "plain", n |-> 2],
       [style |-> "plain", n |-> 1] >>

DaysIn(y, m) == DaysFromCivil(IF m = 12 THEN y + 1 ELSE y, IF m = 12 THEN 1 ELSE m + 1, 1)
                - DaysFromCivil(y, m, 1)

Field(f, k, dflt) == IF k <= Len(f) THEN f[k] ELSE dflt

\* time.Parse(format, dtStr): the layout must match the whole string and
\* every field must be in range (time.Parse rejects a day out of range)
FieldsInRange(f) ==
    /\ Field(f, 1, 0) \in 0..9999
    /\ Field(f, 2, 1) \in 1..12
    /\ Field(f, 3, 1) \in 1..DaysIn(Field(f, 1, 0), Field(f, 2, 1))
    /\ Field(f, 4, 0) \in 0..23
    /\ Field(f, 5, 0) \in 0..59
    /\ Field(f, 6, 0) \in 0..59

ParseMatches(format, dtStr) ==
    /\ dtStr.style = format.style
    /\ Len(dtStr.f) = format.n
    /\ FieldsInRange(dtStr.f)

TimeOfFields(f) ==
    Date(Field(f, 1, 0), Field(f, 2, 1), Field(f, 3, 1),
         Field(f, 4, 0) * 3600 + Field(f, 5, 0) * 60 + Field(f, 6, 0))

ParsedTime(dtStr) == TimeOfFields(dtStr.f)

\* TimeParseAny: the first layout that parses wins; none: an error (and
\* time.Now(), which no caller uses)
TimeParseAny(dtStr, nowT) ==
    IF \E k \in 1..Len(Formats) : ParseMatches(Formats[k], dtStr)
    THEN [err |-> FALSE, t |-> ParsedTime(dtStr)]
    ELSE [err |-> TRUE, t |-> nowT]

\* lib.ToYMDQuoted: 'YYYY-MM-DD', the time of day is dropped
ToYMDQuoted(dt) == <<Year(dt), Month(dt), Day(dt)>>

\* the date a 'YYYY-MM-DD' text is read as by a date column
DateOfYMD(ymd) == DaysFromCivil(ymd[1], ymd[2], ymd[3])

\* the zero time.Time: January 1, year 1, 00:00:00 UTC
ZeroTime == Time(DaysFromCivil(1, 1, 1), 0)

Has(env, key) == key \in DOMAIN env

(***************************************************************************)
(* currentTimeRange                                                        *)
(***************************************************************************)
Shifted(w, isPrev, years, months, days) ==
    IF isPrev
    THEN [dtf |-> AddDate(w.dtf, years, months, days), dtt |-> AddDate(w.dtt, years, months, days)]
    ELSE w

ShiftedBy(dtf, dtt, diff) ==
    [dtf |-> AddSeconds(dtf, 0 - diff), dtt |-> AddSeconds(dtt, 0 - diff)]

YearToDate(dtf, dtt, isPrev) ==
    IF isPrev THEN ShiftedBy(dtf, dtt, Sub(dtt, dtf)) ELSE [dtf |-> dtf, dtt |-> dtt]

Window(dtt, years, months, days) ==
    [dtf |-> AddDate(dtt, years, months, days), dtt |-> dtt]

\* currentTimeRange without the shift of the p-suffixed codes
currentTimeRangeSuffixIgnored(timeRange, env, nowT) ==
    CASE timeRange \in {"7d", "7dp"} ->
           Window(IF Has(env, "CALC_WEEK_DAILY") THEN DayStart(nowT) ELSE WeekStart(nowT), 0, 0, -7)
      [] timeRange \in {"30d", "30dp"} ->
           IF Has(env, "CALC_MONTH_DAILY")
           THEN Window(DayStart(nowT), 0, 0, -30)
           ELSE Window(MonthStart(nowT), 0, -1, 0)
      [] timeRange \in {"q", "qp"} ->
           Window(IF Has(env, "CALC_QUARTER_DAILY") THEN DayStart(nowT) ELSE QuarterStart(nowT), 0, -3, 0)
      [] timeRange \in {"ty", "typ"} ->
           [dtf |-> YearStart(nowT), dtt |-> DayStart(nowT)]
      [] timeRange \in {"y", "yp"} ->
           Window(IF Has(env, "CALC_YEAR_DAILY") THEN DayStart(nowT) ELSE YearStart(nowT), -1, 0, 0)
      [] timeRange \in {"2y", "2yp"} ->
           Window(IF Has(env, "CALC_YEAR2_DAILY") THEN DayStart(nowT) ELSE YearStart(nowT), -2, 0, 0)
      [] timeRange = "a" ->
           [dtf |-> TimeParseAny(DateString("plain", <<1970>>), nowT).t,
            dtt |-> TimeParseAny(DateString("plain", <<2100>>), nowT).t]
      [] OTHER -> [dtf |-> nowT, dtt |-> nowT]

currentTimeRange(timeRange, env, nowT) ==
    CASE timeRange \in {"7d", "7dp"} ->
           Shifted(Window(IF Has(env, "CALC_WEEK_DAILY") THEN DayStart(nowT) ELSE WeekStart(nowT),
                          0, 0, -7),
                   timeRange = "7dp", 0, 0, -7)
      [] timeRange \in {"30d", "30dp"} ->
           IF Has(env, "CALC_MONTH_DAILY")
           THEN Shifted(Window(DayStart(nowT), 0, 0, -30), timeRange = "30dp", 0, 0, -30)
           ELSE Shifted(Window(MonthStart(nowT), 0, -1, 0), timeRange = "30dp", 0, -1, 0)
      [] timeRange \in {"q", "qp"} ->
           Shifted(Window(IF Has(env, "CALC_QUARTER_DAILY") THEN DayStart(nowT) ELSE QuarterStart(nowT),
                          0, -3, 0),
                   timeRange = "qp", 0, -3, 0)
      [] timeRange \in {"ty", "typ"} ->
           YearToDate(YearStart(nowT), DayStart(nowT), timeRange = "typ")
      [] timeRange \in {"y", "yp"} ->
           Shifted(Window(IF Has(env, "CALC_YEAR_DAILY") THEN DayStart(nowT) ELSE YearStart(nowT),
                          -1, 0, 0),
                   timeRange = "yp", -1, 0, 0)
      [] timeRange \in {"2y", "2yp"} ->
           IF Has(env, "CALC_YEAR2_DAILY")
           THEN Shifted(Window(DayStart(nowT), -2, 0, 0), timeRange = "2yp", -2, 0, 0)
           ELSE Shifted(Window(IF Year(nowT) % 2 = 1
                               THEN AddDate(YearStart(nowT), -1, 0, 0)
                               ELSE YearStart(nowT),
                               -2, 0, 0),
                        timeRange = "2yp", -2, 0, 0)
      [] timeRange = "a" ->
           [dtf |-> TimeParseAny(DateString("plain", <<1970>>), nowT).t,
            dtt |-> TimeParseAny(DateString("plain", <<2100>>), nowT).t]
      [] OTHER -> [dtf |-> nowT, dtt |-> nowT]

RangeCodes == {"7d", "7dp", "30d", "30dp", "q", "qp", "ty", "typ", "y", "yp", "2y", "2yp", "a"}

(***************************************************************************)
(* needsCalculation, up to its call of isCalculated: the window, or the    *)
(* configuration error                                                     *)
(***************************************************************************)
\* the parsing of the two bounds without the check of DATE_TO's error
Resolved2DateToUnchecked(pf, pt) ==
    IF pf.err
    THEN [err |-> "cannot parse date", dtf |-> ZeroTime, dtt |-> ZeroTime]
    ELSE [err |-> "", dtf |-> DayStart(pf.t), dtt |-> DayStart(pt.t)]

Resolved2(pf, pt) ==
    IF pf.err
    THEN [err |-> "cannot parse date", dtf |-> ZeroTime, dtt |-> ZeroTime]
    ELSE IF pt.err
    THEN [err |-> "cannot parse date", dtf |-> pf.t, dtt |-> ZeroTime]
    ELSE [err |-> "", dtf |-> DayStart(pf.t), dtt |-> DayStart(pt.t)]

ResolvedRange(w) == [err |-> "", dtf |-> w.dtf, dtt |-> w.dtt]

resolveWindow(timeRange, env, nowT) ==
    IF timeRange \in RangeCodes
    THEN ResolvedRange(currentTimeRange(timeRange, env, nowT))
    ELSE IF timeRange = "c"
    THEN IF ~Has(env, "DATE_FROM")
         THEN [err |-> "you must specify DATE_FROM", dtf |-> ZeroTime, dtt |-> ZeroTime]
         ELSE IF ~Has(env, "DATE_TO")
         THEN [err |-> "you must specify DATE_TO", dtf |-> ZeroTime, dtt |-> ZeroTime]
         ELSE Resolved2(TimeParseAny(env["DATE_FROM"], nowT), TimeParseAny(env["DATE_TO"], nowT))
    ELSE [err |-> "unknown time range", dtf |-> ZeroTime, dtt |-> ZeroTime]

(***************************************************************************)
(* The time-window resolver on its own: a current time, a configuration,   *)
(* and the windows the resolver returns for a code and for its p-form at   *)
(* that same time.                                                         *)
(***************************************************************************)
NumDays == 1461

StartDay == DaysFromCivil(2023, 1, 1)

ClockTimes == {0, 47696}

Toggles == {"CALC_WEEK_DAILY", "CALC_MONTH_DAILY", "CALC_QUARTER_DAILY",
            "CALC_YEAR_DAILY", "CALC_YEAR2_DAILY"}

ToggleSets == {{}, Toggles} \cup {{t} : t \in Toggles}

\* "2023-10", "2023-11", "2023-10-15 13", "2023-11-01T10:20:30Z",
\* "2023-02-30" (no such day) and "soon" (no layout)
DateStrings ==
    { DateString("plain", <<2023, 10>>),
      DateString("plain", <<2023, 11>>),
      DateString("plain", <<2023, 10, 15, 13>>),
      DateString("iso",   <<2023, 11, 1, 10, 20, 30>>),
      DateString("plain", <<2023, 2, 30>>),
      DateString("plain", <<>>) }

PrevCode == [c \in {"7d", "30d", "q", "ty", "y", "2y"} |->
               CASE c = "7d" -> "7dp" [] c = "30d" -> "30dp" [] c = "q" -> "qp"
                 [] c = "ty" -> "typ" [] c = "y" -> "yp" [] c = "2y" -> "2yp"]

EnvOf(keys, dateFrom, dateTo) ==
    [k \in keys |-> IF k = "DATE_FROM" THEN dateFrom ELSE IF k = "DATE_TO" THEN dateTo ELSE "y"]

RangeEnvs(code) ==
    IF code = "c"
    THEN {EnvOf(ks, f, t) : ks \in SUBSET {"DATE_FROM", "DATE_TO"}, f \in DateStrings, t \in DateStrings}
    ELSE {EnvOf(ks, "", "") : ks \in ToggleSets}

NoInv == [pc |-> "none"]

NoRes == [phase |-> "none"]

NoScope == [name |-> "resolver"]

InitRange ==
    /\ now \in {Time(StartDay + k, s) : k \in 0..(NumDays - 1), s \in ClockTimes}
    /\ tables = << >>
    /\ inv = NoInv
    /\ runs = 0
    /\ res = NoRes
    /\ scope = NoScope

Resolve ==
    /\ res.phase = "none"
    /\ \E code \in RangeCodes \cup {"c", "1w"} :
         \E env \in RangeEnvs(code) :
            res' = [phase |-> "one", code |-> code, env |-> env,
                    w |-> resolveWindow(code, env, now)]
    /\ UNCHANGED <<now, tables, inv, runs, scope>>

ResolvePrevious ==
    /\ res.phase = "one"
    /\ res.code \in DOMAIN PrevCode
    /\ res' = [phase |-> "pair", code |-> res.code, env |-> res.env, w |-> res.w,
               pw |-> resolveWindow(PrevCode[res.code], res.env, now)]
    /\ UNCHANGED <<now, tables, inv, runs, scope>>

NextRange == Resolve \/ ResolvePrevious

SpecRange == InitRange /\ [][NextRange]_vars

(***************************************************************************)
(* The database.  tables maps the name of every existing table to its set  *)
(* of rows; a row is a record of the six identity columns and vals, the    *)
(* raw text of its value columns.  date_from and date_to hold day numbers  *)
(* (the columns are of type date).                                         *)
(***************************************************************************)
gMaxPlaceholders == 32768

Row(tr, ps, lca, df, dt, rn, vals) ==
    [time_range |-> tr, project_slug |-> ps, last_calculated_at |-> lca,
     date_from |-> df, date_to |-> dt, row_number |-> rn, vals |-> vals]

Exists(tbls, table) == table \in DOMAIN tbls

RowsOf(tbls, table) == IF Exists(tbls, table) THEN tbls[table] ELSE {}

WithTable(tbls, table, rows) ==
    [t \in DOMAIN tbls \cup {table} |-> IF t = table THEN rows ELSE tbls[t]]

WithoutTable(tbls, table) == [t \in DOMAIN tbls \ {table} |-> tbls[t]]

\* the value a date column compares with a time.Time argument: its day
DateArg(t) == t.d

\* toDBIdentifier: strings.ToLower, then "-" replaced by "_"; a string is a
\* sequence of characters
ToLower(ch) ==
    CASE ch = "A" -> "a" [] ch = "B" -> "b" [] ch = "C" -> "c" [] ch = "M" -> "m"
      [] ch = "P" -> "p" [] OTHER -> ch

toDBIdentifier(arg) ==
    [k \in 1..Len(arg) |-> IF ToLower(arg[k]) = "-" THEN "_" ELSE ToLower(arg[k])]

(***************************************************************************)
(* isCalculated: the rows the select returns, and what the function makes  *)
(* of the database's answer.  resp is the answer: "ok", "undefined_table"  *)
(* or "failed" (any other error of the query or of reading its rows).      *)
(***************************************************************************)
\* the select without its date_to condition
KeyRowsAnyDateTo(rows, projectSlug, timeRange, dtf, dtt) ==
    {r \in rows : /\ r.project_slug = projectSlug
                  /\ r.time_range = timeRange
                  /\ r.date_from = DateArg(dtf)}

KeyRows(rows, projectSlug, timeRange, dtf, dtt) ==
    {r \in rows : /\ r.project_slug = projectSlug
                  /\ r.time_range = timeRange
                  /\ r.date_from = DateArg(dtf)
                  /\ r.date_to = DateArg(dtt)}


isCalculated(resp, tbls, table, projectSlug, timeRange, dtf, dtt) ==
    IF resp = "undefined_table"
    THEN [isCalc |-> FALSE, err |-> FALSE]
    ELSE IF resp # "ok"
    THEN [isCalc |-> FALSE, err |-> TRUE]
    ELSE [isCalc |-> KeyRows(RowsOf(tbls, table), projectSlug, timeRange,
                             DayStart(dtf), DayStart(dtt)) # {},
          err |-> FALSE]

\* the answers the database can give to a statement on table: a missing
\* table is always reported; an existing one is read, or the statement fails
Responses(tbls, table) ==
    IF Exists(tbls, table) THEN {"ok", "failed"} ELSE {"undefined_table", "failed"}

\* needsCalculation: the window, then the freshness check
FreshnessOf(w, c) ==
    [needsCalc |-> IF c.err THEN TRUE ELSE ~c.isCalc,
     dtf |-> w.dtf, dtt |-> w.dtt, err |-> c.err, queried |-> TRUE, isCalc |-> c.isCalc]

NeedsOfWindow(w, resp, tbls, table, projectSlug, timeRange) ==
    IF w.err # ""
    THEN [needsCalc |-> TRUE, dtf |-> w.dtf, dtt |-> w.dtt, err |-> TRUE,
          queried |-> FALSE, isCalc |-> FALSE]
    ELSE FreshnessOf(w, isCalculated(resp, tbls, table, projectSlug, timeRange, w.dtf, w.dtt))

needsCalculation(resp, tbls, table, projectSlug, timeRange, env, nowT) ==
    NeedsOfWindow(resolveWindow(timeRange, env, nowT), resp, tbls, table, projectSlug, timeRange)

(***************************************************************************)
(* supportDelete.  The value of DELETE is modelled by its comma separated  *)
(* fields; strings.Split never returns an empty slice, so delMap holds at  *)
(* least one (possibly unknown or empty) field.                            *)
(***************************************************************************)
Fields(seq) == {seq[k] : k \in 1..Len(seq)}

DeleteRuns(del) == del.present /\ del.fields # <<>> /\ Cardinality(Fields(del.fields)) > 0

DeleteMatches(r, delMap, timeRange, projectSlug, dtf, dtt) ==
    /\ "tr" \in delMap => r.time_range = timeRange
    /\ "ps" \in delMap => r.project_slug = projectSlug
    /\ "df" \in delMap => r.date_from = DateArg(dtf)
    /\ "dt" \in delMap => r.date_to = DateArg(dtt)

DeletedRows(rows, del, timeRange, projectSlug, dtf, dtt) ==
    {r \in rows : DeleteMatches(r, Fields(del.fields), timeRange, projectSlug, dtf, dtt)}

(***************************************************************************)
(* supportCleanup: the rows its delete statement removes                   *)
(***************************************************************************)
CleanupRuns(cl) == cl.present /\ cl.value # ""

\* the delete without its condition on last_calculated_at
CleanupRowsOfAnyDay(rows, timeRange, projectSlug, dtf, dtt, nowT) ==
    {r \in rows : /\ r.time_range = timeRange
                  /\ r.project_slug = projectSlug
                  /\ r.date_from < DateArg(DayStart(dtf))
                  /\ r.date_to < DateArg(DayStart(dtt))}

CleanupRows(rows, timeRange, projectSlug, dtf, dtt, nowT) ==
    {r \in rows : /\ r.time_range = timeRange
                  /\ r.project_slug = projectSlug
                  /\ r.date_from < DateArg(DayStart(dtf))
                  /\ r.date_to < DateArg(DayStart(dtt))
                  /\ r.last_calculated_at.d < nowT.d}

(***************************************************************************)
(* calculate: schema inference.  A result set is [cols, pad, rows]: cols   *)
(* are its leading columns (name, driver type name, nullable), pad the     *)
(* number of further text columns with names of their own, rows the raw    *)
(* text of each row's values.                                              *)
(***************************************************************************)
LowerName(name) ==
    CASE name = "TEXT" -> "text" [] name = "BOOL" -> "bool" [] name = "DATE" -> "date"
      [] name = "INTERVAL" -> "interval" [] name = "NUMERIC" -> "numeric"
      [] name = "VARCHAR" -> "varchar" [] name = "TIMESTAMPTZ" -> "timestamptz"
      [] name = "INT2" -> "int2" [] name = "INT4" -> "int4" [] name = "INT8" -> "int8"
      [] name = "FLOAT4" -> "float4" [] name = "FLOAT8" -> "float8"
      [] name = "JSONB" -> "jsonb" [] name = "TIMESTAMP" -> "timestamp"
      [] name = "BPCHAR" -> "bpchar" [] name = "UUID" -> "uuid" [] name = "BYTEA" -> "bytea"
      [] name = "INT16" -> "int16" [] name = "INT32" -> "int32" [] name = "INT64" -> "int64"
      [] OTHER -> name

dbTypeName(databaseTypeName, guess) ==
    LET name == LowerName(databaseTypeName)
    IN  CASE name \in {"text", "bool", "date", "interval", "numeric"} -> [tp |-> name, err |-> FALSE]
          [] name = "varchar" -> [tp |-> "text", err |-> FALSE]
          [] name = "timestamptz" -> [tp |-> "timestamp", err |-> FALSE]
          [] name \in {"int8", "int16", "int32", "int64"} -> [tp |-> "bigint", err |-> FALSE]
          [] name = "float8" -> [tp |-> "numeric", err |-> FALSE]
          [] OTHER -> IF guess THEN [tp |-> name, err |-> FALSE]
                               ELSE [tp |-> "error", err |-> TRUE]

NumColumns(src) == Len(src.cols) + src.pad

\* the names column.DatabaseTypeName() reports: those of the driver (lib/pq)
\* for the common column types, and the names int16, int32 and int64 that
\* dbTypeName has cases for
DriverTypes ==
    {"TEXT", "BOOL", "DATE", "INTERVAL", "NUMERIC", "VARCHAR", "BPCHAR", "TIMESTAMP",
     "TIMESTAMPTZ", "INT2", "INT4", "INT8", "FLOAT4", "FLOAT8", "JSONB", "UUID", "BYTEA",
     "INT16", "INT32", "INT64"}

\* the column's line of the create table statement: not null is written when
\* the driver knows the column is not nullable
ColumnDDL(tp, nullable) == [type |-> tp.tp, notNull |-> nullable = "no"]

InitTypes ==
    /\ now = Time(StartDay, 0)
    /\ tables = << >>
    /\ inv = NoInv
    /\ runs = 0
    /\ res = NoRes
    /\ scope = [name |-> "types"]

\* one round of the loop over the columns
InferColumn ==
    /\ res.phase = "none"
    /\ \E type \in DriverTypes, nullable \in {"yes", "no", "unknown"}, guess \in BOOLEAN :
          res' = [phase |-> "typed", type |-> type, nullable |-> nullable, guess |-> guess,
                  out |-> dbTypeName(type, guess),
                  ddl |-> ColumnDDL(dbTypeName(type, guess), nullable)]
    /\ UNCHANGED <<now, tables, inv, runs, scope>>

NextTypes == InferColumn

SpecTypes == InitTypes /\ [][NextTypes]_vars

\* the loop over the columns without its namesMap
SchemaErrorOfTypesOnly(src, guess) ==
    \E k \in 1..Len(src.cols) : dbTypeName(src.cols[k].type, guess).err

\* the loop over the columns: the first column whose type is unknown or whose
\* name was seen before ends it with an error
SchemaError(src, guess) ==
    \E k \in 1..Len(src.cols) :
        \/ dbTypeName(src.cols[k].type, guess).err
        \/ \E j \in 1..(k - 1) : src.cols[j].name = src.cols[k].name

\* the create table statement is closed inside the loop's last round: with
\* no column at all the statement is never closed
DDLWellFormed(src) == NumColumns(src) > 0

(***************************************************************************)
(* calculate: the row loop.  st is the loop's state: i (rows read), p, ep, *)
(* and the statement under construction: nargs = len(args), ph = the       *)
(* placeholder numbers written, one run <<lo, hi>> per row, rows = the     *)
(* (row_number, values) pairs carried by args.  ScanRows runs the loop     *)
(* until a flush is due or the rows end at upto.                           *)
(***************************************************************************)
EmptyBatch(i, ep) == [i |-> i, p |-> 0, ep |-> ep, nargs |-> 0, ph |-> <<>>, rows |-> <<>>, due |-> FALSE]

\* the flush test two rows late
FlushDueLate(p, ep) == p >= gMaxPlaceholders + (6 + ep)

\* the test after a row is appended: no room is left for another row
FlushDue(p, ep) == p >= gMaxPlaceholders - (6 + ep)

\* the loop with row_number counted from the start of each batch
AppendRowNumberedPerBatch(st, src) ==
    [i |-> st.i + 1, p |-> st.p + 6 + NumColumns(src), ep |-> NumColumns(src),
     nargs |-> st.nargs + 6 + NumColumns(src),
     ph |-> Append(st.ph, <<st.p + 1, st.p + 6 + NumColumns(src)>>),
     rows |-> Append(st.rows, [rn |-> Len(st.rows) + 1, vals |-> src.rows[st.i + 1]]),
     due |-> FlushDue(st.p + 6 + NumColumns(src), NumColumns(src))]

AppendRow(st, src) ==
    LET i1  == st.i + 1
        n   == NumColumns(src)
        ep1 == IF st.ep = 0 THEN n ELSE st.ep
        p1  == st.p + 6 + ep1
    IN  [i |-> i1, p |-> p1, ep |-> ep1,
         nargs |-> st.nargs + 6 + n,
         ph |-> Append(st.ph, <<st.p + 1, st.p + 6 + n>>),
         rows |-> Append(st.rows, [rn |-> i1, vals |-> src.rows[i1]]),
         due |-> FlushDue(p1, ep1)]

RECURSIVE ScanRows(_, _, _)
ScanRows(st, src, upto) ==
    IF st.i >= upto \/ st.due
    THEN st
    ELSE ScanRows(AppendRow(st, src), src, upto)

\* a primary key without the two dates of the window
PrimaryKeyWithoutWindow(r) == <<r.time_range, r.project_slug, r.row_number>>

\* what the statement does to the table: a row whose primary key exists has
\* its value columns overwritten, any other row is inserted
PrimaryKey(r) == <<r.time_range, r.project_slug, r.date_from, r.date_to, r.row_number>>

\* an upsert that also stamps the row it overwrites
UpsertRowStamping(rows, new) ==
    {r \in rows : PrimaryKey(r) # PrimaryKey(new)} \cup {new}

UpsertRow(rows, new) ==
    IF \E r \in rows : PrimaryKey(r) = PrimaryKey(new)
    THEN {IF PrimaryKey(r) = PrimaryKey(new) THEN [r EXCEPT !.vals = new.vals] ELSE r : r \in rows}
    ELSE rows \cup {new}

RECURSIVE UpsertAll(_, _, _)
UpsertAll(rows, batch, k) ==
    IF k > Len(batch) THEN rows ELSE UpsertAll(UpsertRow(rows, batch[k]), batch, k + 1)

\* the rows args carries, as the insert reads them: dtFrom and dtTo are
\* 'YYYY-MM-DD' texts
BatchRows(st, timeRange, projectSlug, calcDt, dtFrom, dtTo) ==
    [k \in 1..Len(st.rows) |->
        Row(timeRange, projectSlug, calcDt, DateOfYMD(dtFrom), DateOfYMD(dtTo),
            st.rows[k].rn, st.rows[k].vals)]

(***************************************************************************)
(* One invocation of the program (main, calcMetric, calculate).  inv is    *)
(* the running invocation: pc is the statement it is at, the other fields  *)
(* are the locals of calcMetric and calculate, gFinalState, and a record   *)
(* of what the invocation has done so far (chk, did, stmt, before, ...).   *)
(* A key of the environment that the code reads at one place only is drawn *)
(* where it is read.                                                       *)
(***************************************************************************)
MaxRuns == 2

MaxTicks == 2

MaxCols == 1594

MaxRows == 41

ExitOK == 0

ExitFailed == 1

ExitSkipped == 66

TickSeconds == SecondsPerDay \div 2

\* a Sunday noon; the daily 7d window of that day is [2023-10-01, 2023-10-08)
StartTime == Time(DaysFromCivil(2023, 10, 8), TickSeconds)

TableName == <<"m">>

Slugs == {<<"a">>, <<"B", "-", "c">>}

TimeRanges == {"7d", "c", "1w"}

\* "2023-10", "2023-10-08 13", "2023-11" and "2023-02-30"
October == DateString("plain", <<2023, 10>>)
OctoberEighth == DateString("plain", <<2023, 10, 8, 13>>)
November == DateString("plain", <<2023, 11>>)
NoSuchDay == DateString("plain", <<2023, 2, 30>>)

\* the custom windows [10-01, 10-08), [10-01, 11-01) and [10-08, 11-01), a
\* DATE_TO that does not parse and a missing DATE_TO
CustomEnvs ==
    {EnvOf({"DATE_FROM", "DATE_TO"}, October, OctoberEighth),
     EnvOf({"DATE_FROM", "DATE_TO"}, October, November),
     EnvOf({"DATE_FROM", "DATE_TO"}, OctoberEighth, November),
     EnvOf({"DATE_FROM", "DATE_TO"}, October, NoSuchDay),
     EnvOf({"DATE_FROM"}, October, "")}

DailyEnv == EnvOf({"CALC_WEEK_DAILY"}, "", "")

WeeklyEnv == EnvOf({}, "", "")

WindowEnvs(timeRange) ==
    IF timeRange = "c" THEN scope.customEnvs ELSE scope.rangeEnvs

Unset == [present |-> FALSE]

DeleteValues ==
    {Unset} \cup {[present |-> TRUE, fields |-> f] :
                    f \in {<<>>, <<"tr">>, <<"ps">>, <<"df", "dt">>, <<"all">>}}

CleanupValues == {Unset, [present |-> TRUE, value |-> ""], [present |-> TRUE, value |-> "y"]}

Column(name, type, nullable) == [name |-> name, type |-> type, nullable |-> nullable]

RowSeq(n, v) == [k \in 1..n |-> <<v, k>>]

Result(cols, pad, n, v) == [cols |-> cols, pad |-> pad, rows |-> RowSeq(n, v)]

OneColumn == <<Column("cnt", "INT8", FALSE)>>

TwoColumns == <<Column("cnt", "INT8", FALSE), Column("label", "VARCHAR", TRUE)>>

\* the rows of one full batch of the widest result
WideBatch == gMaxPlaceholders \div (6 + MaxCols)

\* results of one column and of zero to two rows
NarrowResults == {Result(OneColumn, 0, n, v) : n \in 0..2, v \in {"x", "y"}}

\* results of MaxCols columns that fill one batch exactly, one batch and a
\* row, and two batches and a row
WideResults ==
    {Result(TwoColumns, MaxCols - 2, n, v) :
        n \in {MaxRows - (WideBatch + 1), MaxRows - WideBatch, MaxRows}, v \in {"x", "y"}}

\* a column name used twice, a type dbTypeName does not know, no column
OddResults ==
    {Result(<<Column("cnt", "INT8", FALSE), Column("cnt", "TEXT", TRUE)>>, 0, 1, "x"),
     Result(<<Column("doc", "JSONB", TRUE)>>, 0, 1, "x"),
     Result(<<>>, 0, 1, "x")}

\* the inputs of the invocations of a behaviour
LifecycleScope ==
    [name |-> "lifecycle", slugs |-> Slugs, ranges |-> TimeRanges,
     rangeEnvs |-> {DailyEnv}, customEnvs |-> CustomEnvs,
     drops |-> BOOLEAN, ppts |-> {FALSE}, deletes |-> DeleteValues,
     forces |-> BOOLEAN, cleanups |-> CleanupValues, runs |-> MaxRuns,
     results |-> NarrowResults \cup OddResults]

NoBatch == EmptyBatch(0, 0)

NoStmt == [kind |-> "none"]

NoCheck == [queried |-> FALSE]

NoFail == [kind |-> "none"]

NoSweep == [ran |-> FALSE]

NewInv(projectSlug, timeRange, drop, ppt) ==
    [pc |-> "start", projectSlug |-> projectSlug, timeRange |-> timeRange,
     drop |-> drop, ppt |-> ppt,
     table |-> IF ppt THEN TableName \o <<"_">> \o toDBIdentifier(projectSlug) ELSE TableName,
     env |-> << >>, needsCalc |-> FALSE, dtf |-> ZeroTime, dtt |-> ZeroTime,
     del |-> Unset, deleted |-> FALSE, force |-> "unread", cleanup |-> Unset,
     src |-> Result(<<>>, 0, 0, "x"), calcDt |-> ZeroTime, st |-> NoBatch,
     changes |-> FALSE, batches |-> 0,
     gFinalState |-> 0, err |-> FALSE, exitCode |-> ExitOK,
     chk |-> NoCheck, rechecked |-> FALSE, decision |-> "none", did |-> {},
     stmt |-> NoStmt, before |-> {}, ran |-> FALSE, calcOK |-> FALSE,
     guess |-> "unread", fail |-> NoFail, swept |-> NoSweep,
     wrote |-> 0, total |-> 0]

IdleInv == [NewInv(<<>>, "", FALSE, FALSE) EXCEPT !.pc = "idle"]

\* the locals of calculate are gone when it has returned
Ended(i) ==
    [i EXCEPT !.pc = "done", !.env = << >>, !.src = Result(<<>>, 0, 0, "x"),
              !.st = NoBatch, !.before = {}, !.calcDt = ZeroTime, !.guess = "unread"]

\* the step of kind that failed first, and the statements executed up to it
Failed(i, kind) ==
    IF i.fail.kind = "none" THEN [i EXCEPT !.fail = [kind |-> kind, did |-> i.did]] ELSE i

\* main without the exit code of a run that calculated nothing
FinishWithoutSkipCode(i, err) ==
    [Ended(i) EXCEPT
              !.err = err,
              !.gFinalState = IF err THEN -1 ELSE @,
              !.exitCode = IF err THEN ExitFailed ELSE ExitOK]

\* calcMetric returns and main ends the process
Finish(i, err) ==
    [Ended(i) EXCEPT
              !.err = err,
              !.gFinalState = IF err THEN -1 ELSE @,
              !.exitCode = IF err THEN ExitFailed
                           ELSE IF i.gFinalState = 0 THEN ExitSkipped ELSE ExitOK]

Init ==
    /\ now = StartTime
    /\ tables = << >>
    /\ inv = IdleInv
    /\ runs = 0
    /\ res = NoRes
    /\ scope = LifecycleScope

\* the clock moves between invocations; an invocation is short next to the
\* half day the clock moves by
Tick ==
    /\ inv.pc \in {"idle", "done"}
    /\ TimeLess(now, AddSeconds(StartTime, MaxTicks * TickSeconds))
    /\ now' = AddSeconds(now, TickSeconds)
    /\ UNCHANGED <<tables, inv, runs, res, scope>>

\* the environment is read; a missing required key ends the invocation
Start ==
    /\ inv.pc \in {"idle", "done"}
    /\ runs < scope.runs
    /\ runs' = runs + 1
    /\ \E projectSlug \in scope.slugs, timeRange \in scope.ranges, drop \in scope.drops,
          ppt \in scope.ppts,
          missing \in BOOLEAN :
          LET i == NewInv(projectSlug, timeRange, drop, ppt)
          IN  inv' = IF missing THEN Finish(Failed(i, "env"), TRUE)
                     ELSE [i EXCEPT !.pc = IF drop THEN "drop" ELSE "check"]
    /\ UNCHANGED <<now, tables, res, scope>>

\* drop table if exists "TABLE"
DropTable ==
    /\ inv.pc = "drop"
    /\ \E ok \in BOOLEAN :
          LET i == [inv EXCEPT !.did = @ \cup {"drop"}]
          IN  IF ok
              THEN /\ tables' = WithoutTable(tables, TableName)
                   /\ inv' = [i EXCEPT !.pc = "check"]
              ELSE /\ inv' = Finish(Failed(i, "drop"), TRUE)
                   /\ UNCHANGED tables
    /\ UNCHANGED <<now, runs, res, scope>>

\* what went wrong in needsCalculation: the configuration of the window or
\* the select of the freshness check
CheckedOrFailed(i, r) ==
    IF r.err THEN Failed(i, IF r.queried THEN "select" ELSE "window") ELSE i

Checked(i, r, resp) ==
    [i EXCEPT !.needsCalc = r.needsCalc, !.dtf = r.dtf, !.dtt = r.dtt,
              !.did = IF r.queried THEN @ \cup {"select"} ELSE @,
              !.chk = IF r.queried
                      THEN [queried |-> TRUE, resp |-> resp, isCalc |-> r.isCalc, err |-> r.err]
                      ELSE NoCheck]

FirstCheck(i, resp, r) ==
    IF r.err
    THEN Finish(CheckedOrFailed(Checked(i, r, resp), r), TRUE)
    ELSE [Checked(i, r, resp) EXCEPT !.pc = "delete"]

\* needsCalculation, first call
Check ==
    /\ inv.pc = "check"
    /\ \E env \in WindowEnvs(inv.timeRange), resp \in Responses(tables, inv.table) :
          inv' = FirstCheck([inv EXCEPT !.env = env], resp,
                            needsCalculation(resp, tables, inv.table, inv.projectSlug,
                                             inv.timeRange, env, now))
    /\ UNCHANGED <<now, tables, runs, res, scope>>

\* supportDelete
Delete ==
    /\ inv.pc = "delete"
    /\ \E del \in scope.deletes :
          IF ~DeleteRuns(del)
          THEN /\ inv' = [inv EXCEPT !.del = del, !.deleted = FALSE, !.pc = "decide"]
               /\ UNCHANGED tables
          ELSE \E resp \in Responses(tables, inv.table) :
                  LET gone == IF resp = "ok"
                              THEN DeletedRows(tables[inv.table], del, inv.timeRange,
                                               inv.projectSlug, inv.dtf, inv.dtt)
                              ELSE {}
                      deleted == gone # {}
                  IN  /\ tables' = IF resp = "ok"
                                   THEN WithTable(tables, inv.table, tables[inv.table] \ gone)
                                   ELSE tables
                      /\ inv' = [(IF resp = "ok" THEN inv
                                   ELSE Failed([inv EXCEPT !.did = @ \cup {"delete"}], "delete"))
                                  EXCEPT !.del = del, !.deleted = deleted,
                                         !.did = @ \cup {"delete"},
                                         !.pc = IF deleted THEN "recheck" ELSE "decide"]
    /\ UNCHANGED <<now, runs, res, scope>>

Rechecked(i, r, resp) == CheckedOrFailed(Checked(i, r, resp), r)

\* needsCalculation, called again after a delete that removed rows; the
\* error it returns is assigned and never looked at
Recheck ==
    /\ inv.pc = "recheck"
    /\ \E resp \in Responses(tables, inv.table) :
          inv' = [Rechecked(inv, needsCalculation(resp, tables, inv.table, inv.projectSlug,
                                                  inv.timeRange, inv.env, now), resp)
                  EXCEPT !.rechecked = TRUE, !.pc = "decide"]
    /\ UNCHANGED <<now, tables, runs, res, scope>>

\* the override, the skip, and the reading of the query template
Decide ==
    /\ inv.pc = "decide"
    /\ \E force \in scope.forces, fileOK \in BOOLEAN :
          LET needsCalc == inv.needsCalc \/ force
              i == [inv EXCEPT !.force = IF inv.needsCalc THEN "unread"
                                         ELSE IF force THEN "set" ELSE "unset",
                               !.needsCalc = needsCalc,
                               !.decision = IF needsCalc THEN "compute" ELSE "skip"]
          IN  inv' = IF ~needsCalc THEN Finish(i, FALSE)
                     ELSE IF ~fileOK THEN Finish(Failed(i, "file"), TRUE)
                     ELSE [i EXCEPT !.pc = "query"]
    /\ UNCHANGED <<now, tables, runs, res, scope>>

\* calculate: the source query and the loop over its columns
Query ==
    /\ inv.pc = "query"
    /\ LET i == [inv EXCEPT !.ran = TRUE, !.did = @ \cup {"query"},
                            !.before = RowsOf(tables, inv.table)]
       IN  \/ inv' = Finish(Failed(i, "query"), TRUE)
           \/ \E src \in scope.results, guess \in BOOLEAN :
                 inv' = IF SchemaError(src, guess)
                        THEN Finish(Failed([i EXCEPT !.src = src], "schema"), TRUE)
                        ELSE [i EXCEPT !.src = src, !.pc = "create",
                                       !.total = Len(src.rows),
                                       !.guess = IF guess THEN "set" ELSE "unset"]
    /\ UNCHANGED <<now, tables, runs, res, scope>>

\* calculate: create table if not exists, and its indexes; then calcDt
Create ==
    /\ inv.pc = "create"
    /\ \E ok \in BOOLEAN :
          LET i == [inv EXCEPT !.did = @ \cup {"create"}]
          IN  IF ok /\ DDLWellFormed(inv.src)
              THEN /\ tables' = WithTable(tables, inv.table, RowsOf(tables, inv.table))
                   /\ inv' = [i EXCEPT !.calcDt = now, !.st = NoBatch, !.pc = "rows"]
              ELSE /\ inv' = Finish(Failed(i, "create"), TRUE)
                   /\ UNCHANGED tables
    /\ UNCHANGED <<now, runs, res, scope>>

\* where the loop over the rows can end: after the last row, or earlier when
\* reading the rows fails (rows.Next() returns false and rows.Err() the error)
ScanLimits(i) ==
    {Len(i.src.rows)} \cup {k \in {i.st.i, i.st.i + 1} : k < Len(i.src.rows)}

Upsert(i, st) ==
    [kind |-> "upsert", nargs |-> st.nargs, ph |-> st.ph,
     rows |-> BatchRows(st, i.timeRange, i.projectSlug, i.calcDt,
                        ToYMDQuoted(i.dtf), ToYMDQuoted(i.dtt))]

\* calculate marking every computation that returns as one with changes
ReturnedAsChanged(i, readFailed) ==
    IF readFailed
    THEN Finish(Failed(i, "read"), TRUE)
    ELSE [i EXCEPT !.gFinalState = 1, !.calcOK = TRUE, !.pc = "cleanup"]

\* calculate returns: rows.Err(), then the changed flag
Returned(i, readFailed) ==
    IF readFailed
    THEN Finish(Failed(i, "read"), TRUE)
    ELSE [i EXCEPT !.gFinalState = IF i.changes THEN 1 ELSE @,
                   !.calcOK = TRUE, !.pc = "cleanup"]

\* calculate: the row loop up to its next statement: an in-loop flush, the
\* final flush, or none when no row is left to flush
FlushBatch ==
    /\ inv.pc = "rows"
    /\ \E upto \in ScanLimits(inv) :
          LET st == ScanRows(inv.st, inv.src, upto)
              readFailed == upto < Len(inv.src.rows)
              stmt == Upsert(inv, st)
              flushed == [inv EXCEPT !.did = @ \cup {"upsert"},
                                     !.stmt = [kind |-> "upsert", nargs |-> stmt.nargs,
                                               ph |-> stmt.ph, n |-> Len(stmt.rows),
                                               final |-> ~st.due],
                                     !.changes = @ \/ Len(stmt.rows) > 0,
                                     !.batches = @ + 1,
                                     !.wrote = @ + Len(stmt.rows),
                                     !.st = EmptyBatch(st.i, st.ep)]
          IN  IF st.nargs = 0
              THEN /\ inv' = Returned([inv EXCEPT !.st = st], readFailed)
                   /\ UNCHANGED tables
              ELSE \E resp \in Responses(tables, inv.table) :
                      IF resp = "ok"
                      THEN /\ tables' = WithTable(tables, inv.table,
                                                  UpsertAll(tables[inv.table], stmt.rows, 1))
                           /\ inv' = IF st.due THEN flushed ELSE Returned(flushed, readFailed)
                      ELSE /\ inv' = Finish(Failed([inv EXCEPT !.did = @ \cup {"upsert"},
                                                               !.st = st], "upsert"), TRUE)
                           /\ UNCHANGED tables
    /\ UNCHANGED <<now, runs, res, scope>>

\* supportCleanup has executed its statement: the rows it removed, and the
\* calendar day of the database's now()
CleanedUp(i, resp, gone, nowT) ==
    [(IF resp = "ok" THEN i ELSE Failed(i, "cleanup"))
     EXCEPT !.swept = [ran |-> TRUE, ok |-> resp = "ok", rows |-> gone, day |-> nowT.d]]

\* supportCleanup; its failure is logged and the invocation still succeeds
Cleanup ==
    /\ inv.pc = "cleanup"
    /\ \E cl \in scope.cleanups :
          IF ~CleanupRuns(cl)
          THEN /\ inv' = Finish([inv EXCEPT !.cleanup = cl], FALSE)
               /\ UNCHANGED tables
          ELSE \E resp \in Responses(tables, inv.table) :
                  LET gone == IF resp = "ok"
                              THEN CleanupRows(tables[inv.table], inv.timeRange,
                                               inv.projectSlug, inv.dtf, inv.dtt, now)
                              ELSE {}
                  IN  /\ tables' = IF resp = "ok"
                                   THEN WithTable(tables, inv.table, tables[inv.table] \ gone)
                                   ELSE tables
                      /\ inv' = Finish(CleanedUp([inv EXCEPT !.cleanup = cl,
                                                              !.did = @ \cup {"cleanup"}],
                                                 resp, gone, now), FALSE)
    /\ UNCHANGED <<now, runs, res, scope>>

\* invocations that fill several batches: one project, one custom window
BatchScope ==
    [name |-> "batches", slugs |-> {<<"a">>}, ranges |-> {"c"},
     rangeEnvs |-> {DailyEnv}, customEnvs |-> {EnvOf({"DATE_FROM", "DATE_TO"}, October, November)},
     drops |-> BOOLEAN, ppts |-> {FALSE},
     deletes |-> {Unset, [present |-> TRUE, fields |-> <<"tr">>]},
     forces |-> BOOLEAN, cleanups |-> {Unset}, runs |-> MaxRuns,
     results |-> WideResults \cup {Result(OneColumn, 0, 0, "x"), Result(OneColumn, 0, 1, "x")}]

InitBatch ==
    /\ now = StartTime
    /\ tables = << >>
    /\ inv = IdleInv
    /\ runs = 0
    /\ res = NoRes
    /\ scope = BatchScope

\* invocations that compute and recompute the keys of two projects, two time
\* ranges and three custom windows, of which any two keys differ in one
\* component or more
RecomputeScope ==
    [name |-> "recompute", slugs |-> Slugs, ranges |-> {"7d", "c"},
     rangeEnvs |-> {DailyEnv},
     customEnvs |-> {EnvOf({"DATE_FROM", "DATE_TO"}, October, OctoberEighth),
                     EnvOf({"DATE_FROM", "DATE_TO"}, October, November),
                     EnvOf({"DATE_FROM", "DATE_TO"}, OctoberEighth, November)},
     drops |-> BOOLEAN, ppts |-> {FALSE},
     deletes |-> {Unset, [present |-> TRUE, fields |-> <<"tr">>]},
     forces |-> BOOLEAN, cleanups |-> {Unset}, runs |-> MaxRuns,
     results |-> {Result(OneColumn, 0, 1, "x"), Result(OneColumn, 0, 2, "x")}]

InitRecompute ==
    /\ now = StartTime
    /\ tables = << >>
    /\ inv = IdleInv
    /\ runs = 0
    /\ res = NoRes
    /\ scope = RecomputeScope

\* invocations on two days that compute the windows [10-01, 10-08),
\* [10-01, 11-01), [10-08, 11-01) and the daily 7d window of two projects,
\* with and without CLEANUP
CleanupScope ==
    [name |-> "cleanup", slugs |-> Slugs, ranges |-> {"7d", "c"},
     rangeEnvs |-> {DailyEnv},
     customEnvs |-> {EnvOf({"DATE_FROM", "DATE_TO"}, October, OctoberEighth),
                     EnvOf({"DATE_FROM", "DATE_TO"}, October, November),
                     EnvOf({"DATE_FROM", "DATE_TO"}, OctoberEighth, November)},
     drops |-> BOOLEAN, ppts |-> {FALSE},
     deletes |-> {Unset, [present |-> TRUE, fields |-> <<"tr">>]},
     forces |-> BOOLEAN, cleanups |-> CleanupValues, runs |-> MaxRuns,
     results |-> {Result(OneColumn, 0, 1, "x")}]

InitCleanup ==
    /\ now = StartTime
    /\ tables = << >>
    /\ inv = IdleInv
    /\ runs = 0
    /\ res = NoRes
    /\ scope = CleanupScope

\* invocations that fail: an unknown time range, custom windows with a
\* missing or unparseable bound, result sets without a usable schema
FailureScope ==
    [name |-> "failures", slugs |-> {<<"a">>}, ranges |-> {"c", "1w"},
     rangeEnvs |-> {DailyEnv},
     customEnvs |-> {EnvOf({"DATE_FROM", "DATE_TO"}, October, November),
                     EnvOf({"DATE_FROM", "DATE_TO"}, October, NoSuchDay),
                     EnvOf({"DATE_FROM"}, October, "")},
     drops |-> BOOLEAN, ppts |-> {FALSE},
     deletes |-> {Unset, [present |-> TRUE, fields |-> <<"tr">>]},
     forces |-> BOOLEAN, cleanups |-> {Unset, [present |-> TRUE, value |-> "y"]},
     runs |-> MaxRuns,
     results |-> OddResults \cup {Result(OneColumn, 0, 0, "x"), Result(OneColumn, 0, 1, "x")}]

InitFailures ==
    /\ now = StartTime
    /\ tables = << >>
    /\ inv = IdleInv
    /\ runs = 0
    /\ res = NoRes
    /\ scope = FailureScope

Next ==
    \/ Tick
    \/ Start
    \/ DropTable
    \/ Check
    \/ Delete
    \/ Recheck
    \/ Decide
    \/ Query
    \/ Create
    \/ FlushBatch
    \/ Cleanup

Spec == Init /\ [][Next]_vars

SpecBatch == InitBatch /\ [][Next]_vars

SpecRecompute == InitRecompute /\ [][Next]_vars

SpecFailures == InitFailures /\ [][Next]_vars

SpecCleanup == InitCleanup /\ [][Next]_vars

\* invocations with and without PPT and DROP that compute and recompute the
\* key of one custom window for two projects
PerProjectScope ==
    [name |-> "perproject", slugs |-> Slugs, ranges |-> {"c"},
     rangeEnvs |-> {DailyEnv},
     customEnvs |-> {EnvOf({"DATE_FROM", "DATE_TO"}, October, November)},
     drops |-> BOOLEAN, ppts |-> BOOLEAN,
     deletes |-> {Unset, [present |-> TRUE, fields |-> <<"tr">>]},
     forces |-> BOOLEAN, cleanups |-> {Unset, [present |-> TRUE, value |-> "y"]},
     runs |-> MaxRuns,
     results |-> {Result(OneColumn, 0, 1, "x")}]

InitPerProject ==
    /\ now = StartTime
    /\ tables = << >>
    /\ inv = IdleInv
    /\ runs = 0
    /\ res = NoRes
    /\ scope = PerProjectScope

SpecPerProject == InitPerProject /\ [][Next]_vars

(***************************************************************************)
(* Two invocations at the same time.  Each is a process of its own with    *)
(* its own locals; the database executes their statements one at a time.   *)
(* inv is the invocation whose statement the database executes next, and   *)
(* res.other the invocation that waits; every action above is one          *)
(* statement and the local steps up to it, so the two may change places    *)
(* between any two actions.                                                *)
(***************************************************************************)
\* two invocations on a new database in one day, for the keys of one project
\* and the custom windows [10-01, 10-08) and [10-08, 11-01), FORCE_CALC
\* unset, with a result of two batches
ConcurrentScope ==
    [name |-> "concurrent", slugs |-> {<<"a">>}, ranges |-> {"c"},
     rangeEnvs |-> {DailyEnv},
     customEnvs |-> {EnvOf({"DATE_FROM", "DATE_TO"}, October, OctoberEighth),
                     EnvOf({"DATE_FROM", "DATE_TO"}, OctoberEighth, November)},
     drops |-> BOOLEAN, ppts |-> {FALSE},
     deletes |-> {Unset, [present |-> TRUE, fields |-> <<"tr">>]},
     forces |-> {FALSE}, cleanups |-> {Unset, [present |-> TRUE, value |-> "y"]},
     runs |-> 2,
     results |-> {Result(TwoColumns, MaxCols - 2, MaxRows - WideBatch, "x")}]

InitConcurrent ==
    /\ now = StartTime
    /\ tables = << >>
    /\ inv = IdleInv
    /\ runs = 0
    /\ res = [phase |-> "two", other |-> IdleInv, initial |-> tables]
    /\ scope = ConcurrentScope

\* the database turns to the other invocation
Switch ==
    /\ res.phase = "two"
    /\ inv' = res.other
    /\ res' = [res EXCEPT !.other = inv]
    /\ UNCHANGED <<now, tables, runs, scope>>

NextConcurrent ==
    \/ Switch
    \/ Start
    \/ DropTable
    \/ Check
    \/ Delete
    \/ Recheck
    \/ Decide
    \/ Query
    \/ Create
    \/ FlushBatch
    \/ Cleanup

SpecConcurrent == InitConcurrent /\ [][NextConcurrent]_vars

(***************************************************************************)
(* Claims about an invocation (checked under Spec; C2 and C4 under         *)
(* SpecRecompute, C5, C6 and C17 under SpecBatch, C11 and C16 under        *)
(* SpecFailures, C13 under SpecCleanup, C18 under SpecConcurrent, C19      *)
(* under SpecTypes, C21 and C22 under SpecPerProject)                      *)
(***************************************************************************)
\* the rows of the invocation's key quadruple in a set of rows
OwnRows(rows) ==
    {r \in rows : /\ r.project_slug = inv.projectSlug
                  /\ r.time_range = inv.timeRange
                  /\ r.date_from = inv.dtf.d
                  /\ r.date_to = inv.dtt.d}

\* calculate has just returned nil
CalcReturned == inv.pc = "cleanup"

\* the (row_number, values) pairs of a set of rows
Content(rows) == {<<r.row_number, r.vals>> : r \in rows}

SourceContent == {<<k, inv.src.rows[k]>> : k \in 1..Len(inv.src.rows)}

\* C1 as stated: an invocation ends with exit code 0 when it succeeded and
\* calculate ran to completion, with the skipped code 66 when it succeeded
\* and the key was fresh, and with the failure code 1 when a step failed; an
\* invocation that ran the computation never exits with the skipped code.
C1_ExitContract ==
    inv.pc = "done" =>
        /\ inv.err => inv.exitCode = ExitFailed
        /\ (~inv.err /\ inv.decision = "skip") => inv.exitCode = ExitSkipped
        /\ (~inv.err /\ inv.calcOK) => inv.exitCode = ExitOK

\* C2: a missing table makes isCalculated report "not computed" without an
\* error; a query that ran reports "computed" iff the table holds a row whose
\* four key components equal the day-normalized arguments; any other failure
\* of the query is an error.
C2_FreshnessCheck ==
    inv.chk.queried =>
        /\ inv.chk.resp = "failed" => inv.chk.err
        /\ inv.chk.resp = "undefined_table" => ~inv.chk.err /\ ~inv.chk.isCalc
        /\ (inv.chk.resp = "ok" /\ inv.pc \in {"delete", "decide"}) =>
              /\ ~inv.chk.err
              /\ inv.table \in DOMAIN tables
              /\ inv.chk.isCalc <=>
                    \E r \in tables[inv.table] :
                       /\ r.project_slug = inv.projectSlug
                       /\ r.time_range = inv.timeRange
                       /\ r.date_from = inv.dtf.d
                       /\ r.date_to = inv.dtt.d
        /\ (inv.chk.resp = "undefined_table" /\ inv.pc \in {"delete", "decide"}) =>
              inv.table \notin DOMAIN tables

\* C2 witness: the check ran on a table that holds rows of the same project,
\* time range and date_from but of another date_to, and reported "not
\* computed"
C2_Witness ==
    /\ inv.pc = "delete"
    /\ inv.chk.queried /\ inv.chk.resp = "ok" /\ ~inv.chk.isCalc
    /\ \E r \in tables[inv.table] :
          /\ r.project_slug = inv.projectSlug
          /\ r.time_range = inv.timeRange
          /\ r.date_from = inv.dtf.d
          /\ r.date_to # inv.dtt.d

\* C3 as stated: the computation is decided iff the (last) freshness check
\* reported "not computed" or FORCE_CALC is set, and the check is made again
\* after a delete that removed rows.
C3_DecisionRule ==
    inv.decision # "none" =>
        /\ inv.deleted => inv.rechecked
        /\ inv.decision = "compute" <=>
              \/ inv.chk.queried /\ ~inv.chk.err /\ ~inv.chk.isCalc
              \/ inv.force = "set"

\* C4 as stated: a forced recomputation of a key whose rows are those of an
\* identical result set reports no affected row (the changed flag stays
\* false) and leaves every row of the key as it was.
C4_Idempotent ==
    (CalcReturned /\ inv.force = "set" /\ Content(OwnRows(inv.before)) = SourceContent) =>
        /\ ~inv.changes
        /\ OwnRows(tables[inv.table]) = OwnRows(inv.before)

\* C4 amended: a forced recomputation of a key whose rows are those of an
\* identical result set leaves every row of the table, last_calculated_at
\* included, as it was; its upserts report every row they carry as affected,
\* so the changed flag is set (the result set of a key that is fresh has at
\* least one row).
C4_RecomputeKeepsRows ==
    (CalcReturned /\ inv.force = "set" /\ Content(OwnRows(inv.before)) = SourceContent) =>
        /\ tables[inv.table] = inv.before
        /\ inv.changes
        /\ inv.gFinalState = 1
        /\ Len(inv.src.rows) > 0

\* C4 witness: such a recomputation has returned, at a later time than the
\* one the rows carry
C4_Witness ==
    /\ CalcReturned /\ inv.force = "set"
    /\ Content(OwnRows(inv.before)) = SourceContent
    /\ Len(inv.src.rows) = 2
    /\ \A r \in OwnRows(tables[inv.table]) : r.last_calculated_at # inv.calcDt

\* the numbers of the placeholders of a statement are 1, 2, ... without a gap
Contiguous(ph) ==
    /\ ph # <<>> => ph[1][1] = 1
    /\ \A k \in 1..Len(ph) : ph[k][1] <= ph[k][2]
    /\ \A k \in 1..(Len(ph) - 1) : ph[k + 1][1] = ph[k][2] + 1

RECURSIVE SumRuns(_, _)
SumRuns(ph, k) == IF k > Len(ph) THEN 0 ELSE (ph[k][2] - ph[k][1] + 1) + SumRuns(ph, k + 1)

\* C5: every upsert calculate executes, in the loop or as the final flush,
\* carries at most gMaxPlaceholders parameters, as many arguments as its text
\* has placeholders, and placeholders numbered from 1 without a gap.
C5_BatchWithinCeiling ==
    inv.stmt.kind = "upsert" =>
        /\ inv.stmt.nargs <= gMaxPlaceholders
        /\ inv.stmt.nargs = SumRuns(inv.stmt.ph, 1)
        /\ Contiguous(inv.stmt.ph)
        /\ inv.stmt.n = Len(inv.stmt.ph)

\* C5 witness: the final flush of a computation that flushed twice in the
\* loop
C5_Witness ==
    /\ inv.stmt.kind = "upsert" /\ inv.stmt.final
    /\ inv.batches = 3
    /\ inv.stmt.nargs = 6 + MaxCols

\* the rows a computation of the whole result in one statement leaves
SingleBatch ==
    UpsertAll(inv.before,
              [k \in 1..Len(inv.src.rows) |->
                  Row(inv.timeRange, inv.projectSlug, inv.calcDt, inv.dtf.d, inv.dtt.d,
                      k, inv.src.rows[k])],
              1)

\* C6: a computation split into several batches leaves the table with the
\* rows a single batch of the same result set leaves.
C6_BatchingTransparent ==
    CalcReturned => tables[inv.table] = SingleBatch

\* C6 witness: a computation of three batches over a table that held rows of
\* the key has returned
C6_Witness ==
    /\ CalcReturned
    /\ inv.batches = 3
    /\ OwnRows(inv.before) # {}
    /\ Cardinality(OwnRows(tables[inv.table])) = MaxRows

\* C7 as stated: after a successful computation of n rows the key holds
\* exactly n rows, numbered 1..n in source order, also when the key had rows
\* before.
C7_ExactlyTheResult ==
    CalcReturned =>
        /\ Content(OwnRows(tables[inv.table])) = SourceContent
        /\ Cardinality(OwnRows(tables[inv.table])) = Len(inv.src.rows)

\* C8 as stated: in every table state all rows of one key quadruple carry the
\* same last_calculated_at.
C8_SharedTimestamp ==
    \A t \in DOMAIN tables :
       \A r1, r2 \in tables[t] :
          (/\ r1.project_slug = r2.project_slug
           /\ r1.time_range = r2.time_range
           /\ r1.date_from = r2.date_from
           /\ r1.date_to = r2.date_to)
          => r1.last_calculated_at = r2.last_calculated_at

\* the statements of calculate and of supportCleanup
ComputationStatements == {"create", "upsert", "cleanup"}

UniqueNames(cols) == \A j, k \in 1..Len(cols) : cols[j].name = cols[k].name => j = k

\* C11 as stated: an invocation that fails on a duplicate column name or an
\* unknown column type has executed no DDL and no DML statement, whatever the
\* optional keys (drop and delete included).
C11_NoStatementBeforeSchemaError ==
    inv.fail.kind = "schema" =>
        inv.did \cap ({"drop", "delete"} \cup ComputationStatements) = {}

\* C11 amended: an invocation that fails on a duplicate column name or an
\* unknown column type (guess-type override unset) ends failed without having
\* executed the create-table DDL, an upsert or the cleanup; the statements it
\* has executed are among drop, freshness select and delete, which run before
\* the source query, and the source query itself.  No create-table DDL is
\* executed for a result set with a duplicate name or an unknown type.
C11_SchemaErrorBeforeComputationWrites ==
    /\ inv.fail.kind = "schema" =>
          /\ inv.pc = "done" /\ inv.err /\ inv.exitCode = ExitFailed
          /\ inv.did \cap ComputationStatements = {}
          /\ "query" \in inv.did
          /\ inv.did \subseteq {"drop", "select", "delete", "query"}
    /\ (inv.pc \in {"rows", "cleanup"} /\ "create" \in inv.did) =>
          /\ UniqueNames(inv.src.cols)
          /\ \A k \in 1..Len(inv.src.cols) :
                \/ inv.guess = "set"
                \/ LowerName(inv.src.cols[k].type) \in
                      {"text", "bool", "date", "interval", "numeric", "varchar",
                       "timestamptz", "int8", "int16", "int32", "int64", "float8"}

\* C11 witness: an invocation with DROP and DELETE has dropped the table,
\* and then failed on the schema of its result set
C11_Witness ==
    /\ inv.fail.kind = "schema"
    /\ inv.pc = "done"
    /\ inv.drop
    /\ "drop" \in inv.did
    /\ "create" \notin inv.did

\* C12 as stated: supportDelete executes its delete statement only when the
\* statement is restricted by one or more of the predicates time_range,
\* project_slug, date_from, date_to of the requested subset; a subset that
\* selects none of them is refused.
C12_DeleteAlwaysRestricted ==
    "delete" \in inv.did =>
        Fields(inv.del.fields) \cap {"tr", "ps", "df", "dt"} # {}

\* the table as supportCleanup found it
BeforeSweep == RowsOf(tables, inv.table) \cup inv.swept.rows

\* C13: the cleanup statement is executed only after calculate returned
\* without error in the same invocation and with CLEANUP set to a non-empty
\* value; it removes exactly the rows of the invocation's time_range and
\* project_slug whose date_from and date_to are both strictly earlier than
\* the window's bounds and whose last_calculated_at is of a day before the
\* current one; rows of the current key quadruple, of another project or
\* time range, or calculated on the current day stay as they are.
C13_CleanupFrame ==
    /\ "cleanup" \in inv.did <=> inv.swept.ran
    /\ inv.swept.ran =>
          /\ inv.calcOK /\ inv.ran /\ ~inv.err /\ inv.decision = "compute"
          /\ inv.cleanup.present /\ inv.cleanup.value # ""
          /\ inv.exitCode # ExitFailed
    /\ (inv.swept.ran /\ inv.swept.ok) =>
          /\ inv.swept.rows \cap RowsOf(tables, inv.table) = {}
          /\ inv.swept.rows =
                {r \in BeforeSweep : /\ r.time_range = inv.timeRange
                                     /\ r.project_slug = inv.projectSlug
                                     /\ r.date_from < inv.dtf.d
                                     /\ r.date_to < inv.dtt.d
                                     /\ r.last_calculated_at.d < inv.swept.day}
          /\ OwnRows(BeforeSweep) \subseteq RowsOf(tables, inv.table)
          /\ \A r \in BeforeSweep :
                (\/ r.project_slug # inv.projectSlug
                 \/ r.time_range # inv.timeRange
                 \/ r.last_calculated_at.d = inv.swept.day) => r \in tables[inv.table]
    /\ (inv.swept.ran /\ ~inv.swept.ok) => inv.swept.rows = {}

\* C13 witness: the cleanup has removed the rows of an earlier window that
\* were calculated the day before, and kept the rows of the current window
C13_Witness ==
    /\ inv.swept.ran /\ inv.swept.ok
    /\ inv.swept.rows # {}
    /\ OwnRows(tables[inv.table]) # {}
    /\ \A r \in inv.swept.rows : r.last_calculated_at.d < inv.swept.day

\* C14 as stated: when a database statement of an invocation fails (drop,
\* freshness select other than on a missing table, delete, source query,
\* create table, upsert, cleanup delete), the invocation executes no further
\* statement and ends failed with the failure exit code.
C14_EveryFailureFatal ==
    inv.fail.kind \in {"drop", "select", "delete", "query", "create", "upsert", "cleanup"} =>
        /\ inv.pc = "done"
        /\ inv.err
        /\ inv.exitCode = ExitFailed
        /\ inv.did = inv.fail.did

\* C15 as stated: when an invocation has ended, whatever its outcome, the
\* rows of its result set that it has written are all of them or none.
C15_AllOrNothing ==
    inv.pc = "done" => inv.wrote \in {0, inv.total}

Parses(dtStr) == \E k \in 1..Len(Formats) : ParseMatches(Formats[k], dtStr)

\* the invocation is past its first call of needsCalculation and still runs
PastCheck == inv.pc \in {"delete", "recheck", "decide", "query", "create", "rows", "cleanup"}

\* C16: an invocation with a missing required key ends failed without having
\* executed any statement; one with an unknown time-range code, with code c
\* and a missing DATE_FROM or DATE_TO, or with a bound that does not parse,
\* ends failed at needsCalculation: it executes no freshness select, no
\* delete, no source query, no create table, no upsert and no cleanup.  An
\* invocation that goes on past needsCalculation has a valid configuration.
C16_ConfigurationErrorsFatal ==
    /\ inv.fail.kind \in {"env", "window"} =>
          /\ inv.pc = "done" /\ inv.err /\ inv.exitCode = ExitFailed
          /\ inv.gFinalState = -1
          /\ ~inv.ran
          /\ inv.did \cap {"select", "delete", "query", "create", "upsert", "cleanup"} = {}
    /\ inv.fail.kind = "env" => inv.did = {}
    /\ PastCheck =>
          /\ inv.timeRange \in RangeCodes \cup {"c"}
          /\ inv.timeRange = "c" =>
                /\ "DATE_FROM" \in DOMAIN inv.env /\ "DATE_TO" \in DOMAIN inv.env
                /\ Parses(inv.env["DATE_FROM"]) /\ Parses(inv.env["DATE_TO"])
    /\ (inv.pc = "done" /\ inv.timeRange \notin RangeCodes \cup {"c"}) =>
          inv.fail.kind \in {"env", "drop", "window"}

\* C16 witness: an invocation with an unknown time-range code has ended
\* failed at needsCalculation, after the drop it was configured with
C16_Witness ==
    /\ inv.pc = "done"
    /\ inv.fail.kind = "window"
    /\ inv.timeRange \notin RangeCodes \cup {"c"}
    /\ inv.exitCode = ExitFailed
    /\ inv.did = {"drop"}

C21_DropsDestinationTable ==
    (inv.drop /\ "drop" \in inv.did /\ inv.fail.kind # "drop") =>
        /\ inv.table = TableName
        /\ (inv.chk.queried /\ ~inv.rechecked) => inv.chk.resp # "ok"
        /\ inv.decision # "skip"

\* the invocation has ended, its freshness check found the key computed,
\* and FORCE_CALC, DROP and DELETE are unset
FreshAndUnforced ==
    /\ inv.pc = "done"
    /\ inv.chk.queried /\ inv.chk.isCalc /\ ~inv.chk.err
    /\ inv.force = "unset" /\ ~inv.drop /\ ~inv.del.present

\* C22: an invocation whose freshness check finds the key computed, with
\* FORCE_CALC, DROP and DELETE unset, is skipped (exit code 66, no error)
\* and has executed no statement but the select of the check; and no step
\* of an invocation that has executed nothing but selects changes a table
\* or a row, last_calculated_at included.
C22_SkipLeavesDatabase ==
    /\ [](FreshAndUnforced =>
            /\ inv.decision = "skip" /\ ~inv.err /\ inv.exitCode = ExitSkipped
            /\ inv.did = {"select"})
    /\ [][inv'.did \subseteq {"select"} => tables' = tables]_vars

\* a skipped invocation on a table that holds rows
C22_Witness ==
    FreshAndUnforced /\ inv.decision = "skip" /\ RowsOf(tables, inv.table) # {}

\* An invocation that has ended and logged no error
Succeeded(p) == p.pc = "done" /\ ~p.err /\ p.fail.kind = "none"

KeyOf(p) == <<p.projectSlug, p.timeRange, p.dtf, p.dtt>>

\* the rows a computation of p's key writes for the result src
ResultRows(p, src) ==
    [k \in 1..Len(src.rows) |->
        Row(p.timeRange, p.projectSlug, now, DateArg(p.dtf), DateArg(p.dtt), k, src.rows[k])]

\* the configuration of an invocation; a key it has not read can have any
\* value of the scope
ForcesOf(p) == IF p.force = "unread" THEN scope.forces ELSE {p.force = "set"}

CleanupsOf(p) == IF p.calcOK THEN {p.cleanup} ELSE scope.cleanups

\* one invocation on its own, statement by statement, on the database tbls
SerialDrop(tbls, p) == IF p.drop THEN WithoutTable(tbls, TableName) ELSE tbls

SerialDelete(tbls, p) ==
    IF DeleteRuns(p.del) /\ Exists(tbls, p.table)
    THEN WithTable(tbls, p.table,
                   tbls[p.table] \ DeletedRows(tbls[p.table], p.del, p.timeRange,
                                                p.projectSlug, p.dtf, p.dtt))
    ELSE tbls

SerialFresh(tbls, p) ==
    KeyRows(RowsOf(tbls, p.table), p.projectSlug, p.timeRange, p.dtf, p.dtt) # {}

SerialCompute(tbls, p, src) ==
    WithTable(tbls, p.table, UpsertAll(RowsOf(tbls, p.table), ResultRows(p, src), 1))

SerialCleanup(tbls, p, cl) ==
    IF CleanupRuns(cl)
    THEN WithTable(tbls, p.table,
                   tbls[p.table] \ CleanupRows(tbls[p.table], p.timeRange, p.projectSlug,
                                                p.dtf, p.dtt, now))
    ELSE tbls

SerialDecided(tbls, p, force) ==
    IF SerialFresh(tbls, p) /\ ~force
    THEN {tbls}
    ELSE {SerialCleanup(SerialCompute(tbls, p, src), p, cl) :
             src \in scope.results, cl \in CleanupsOf(p)}

\* the databases the invocation p alone can leave, started on tbls
Serial(tbls, p) ==
    UNION {SerialDecided(SerialDelete(SerialDrop(tbls, p), p), p, force) : force \in ForcesOf(p)}

OneAfterTheOther(tbls, p, q) == UNION {Serial(t, q) : t \in Serial(tbls, p)}

\* the rows of p's key are the whole result of p's computation or, when p
\* skipped the computation, the rows it found
RowsComplete(p) ==
    IF p.calcOK
    THEN \E src \in scope.results :
            Content(KeyRows(RowsOf(tables, p.table), p.projectSlug, p.timeRange, p.dtf, p.dtt))
                = {<<k, src.rows[k]>> : k \in 1..Len(src.rows)}
    ELSE KeyRows(RowsOf(tables, p.table), p.projectSlug, p.timeRange, p.dtf, p.dtt)
            = KeyRows(RowsOf(res.initial, p.table), p.projectSlug, p.timeRange, p.dtf, p.dtt)

SeriallyEquivalent(p, q) ==
    /\ tables \in OneAfterTheOther(res.initial, p, q) \cup OneAfterTheOther(res.initial, q, p)
    /\ RowsComplete(p)
    /\ RowsComplete(q)

\* two invocations for different keys have both ended without an error
BothEnded(p, q) == Succeeded(p) /\ Succeeded(q) /\ KeyOf(p) # KeyOf(q)

\* DROP, DELETE and CLEANUP are unset or without effect
Quiet(p) == ~p.drop /\ ~DeleteRuns(p.del) /\ ~CleanupRuns(p.cleanup)

C20_FreshAfterComputation ==
    (inv.calcOK /\ inv.pc \in {"cleanup", "done"}) =>
        isCalculated("ok", tables, inv.table, inv.projectSlug, inv.timeRange,
                     inv.dtf, inv.dtt).isCalc

\* the canonical type C19 gives a driver-reported type, "" where it gives none
CanonicalType(type) ==
    CASE type \in {"TEXT", "DATE", "INTERVAL", "NUMERIC"} -> LowerName(type)
      [] type = "BOOL" -> "bool"
      [] type = "VARCHAR" -> "text"
      [] type = "TIMESTAMPTZ" -> "timestamp"
      [] type \in {"INT2", "INT4", "INT8", "INT16", "INT32", "INT64"} -> "bigint"
      [] type = "FLOAT4" -> "numeric"
      [] OTHER -> ""

\* C19 as stated: text, boolean, date, interval and numeric pass through;
\* varchar maps to text, timestamp with time zone to timestamp, every integer
\* width to bigint, single-precision float to numeric; any other type is an
\* error, or with the guess-type override its own name and no error.
C19_TypeMapping ==
    res.phase = "typed" =>
        IF CanonicalType(res.type) # ""
        THEN ~res.out.err /\ res.out.tp = CanonicalType(res.type)
        ELSE IF res.guess
        THEN ~res.out.err /\ res.out.tp = LowerName(res.type)
        ELSE res.out.err

(***************************************************************************)
(* Claims about the time-window resolver (checked under SpecRange)         *)
(***************************************************************************)
Resolved == res.phase \in {"one", "pair"} /\ res.w.err = ""

DayAligned(t) == t.s = 0

WindowDays(w) == w.dtt.d - w.dtf.d

DailyMode == \/ res.code = "7d" /\ Has(res.env, "CALC_WEEK_DAILY")
             \/ res.code = "30d" /\ Has(res.env, "CALC_MONTH_DAILY")
             \/ res.code = "q" /\ Has(res.env, "CALC_QUARTER_DAILY")
             \/ res.code = "y" /\ Has(res.env, "CALC_YEAR_DAILY")
             \/ res.code = "2y" /\ Has(res.env, "CALC_YEAR2_DAILY")

\* C9 as stated: for every valid code (c with parseable bounds included),
\* every toggle setting and every current date, both bounds of the resolved
\* window are at 00:00:00 UTC and date_from is strictly earlier than date_to.
C9_AlignedAndOrdered ==
    Resolved =>
        /\ DayAligned(res.w.dtf)
        /\ DayAligned(res.w.dtt)
        /\ TimeLess(res.w.dtf, res.w.dtt)

\* C9 amended: both bounds are always at 00:00:00 UTC; date_from is strictly
\* earlier than date_to for every code but ty, typ and c; for ty and typ the
\* window is empty (date_from = date_to) exactly on January 1; for c the
\* bounds are the days of DATE_FROM and DATE_TO as given, in whatever order.
C9_AlignedOrderedButTyAndCustom ==
    Resolved =>
        /\ DayAligned(res.w.dtf)
        /\ DayAligned(res.w.dtt)
        /\ res.code \notin {"ty", "typ", "c"} => TimeLess(res.w.dtf, res.w.dtt)
        /\ res.code \in {"ty", "typ"} =>
              IF Month(now) = 1 /\ Day(now) = 1
              THEN res.w.dtf = res.w.dtt
              ELSE TimeLess(res.w.dtf, res.w.dtt)
        /\ res.code = "c" =>
              /\ res.w.dtf = Time(ParsedTime(res.env["DATE_FROM"]).d, 0)
              /\ res.w.dtt = Time(ParsedTime(res.env["DATE_TO"]).d, 0)

\* C9 witness: on the afternoon of a January 1 the window of ty is resolved
\* and is empty
C9_Witness ==
    /\ Resolved
    /\ res.code = "ty"
    /\ now.s # 0
    /\ Month(now) = 1 /\ Day(now) = 1
    /\ res.w.dtf = res.w.dtt
    /\ DayAligned(res.w.dtt)

\* C10 as stated: the p-suffixed window is the unsuffixed one moved earlier
\* by exactly the unsuffixed window's length (both bounds, so the lengths are
\* equal) and the two windows do not overlap.
C10_ShiftedByOwnLength ==
    res.phase = "pair" =>
        /\ res.pw.dtf.d = res.w.dtf.d - WindowDays(res.w)
        /\ res.pw.dtt.d = res.w.dtt.d - WindowDays(res.w)
        /\ ~TimeLess(res.w.dtf, res.pw.dtt)

\* C10 amended: the p-suffixed window is the period right before the
\* unsuffixed one: its date_to equals the unsuffixed date_from (no overlap, no
\* gap) and its date_from lies one more period step back (7 days, 30 days or
\* a calendar month, 3 months, 1 year, 2 years; for typ the length of ty).
\* The two windows have the same length for 7d/7dp, for daily 30d/30dp and
\* for ty/typ; in the month, quarter and year modes the lengths are those of
\* the calendar periods and may differ.
C10_PreviousPeriod ==
    res.phase = "pair" =>
        /\ res.pw.dtt = res.w.dtf
        /\ ~TimeLess(res.pw.dtt, res.pw.dtf)
        /\ res.code = "7d" => WindowDays(res.pw) = 7 /\ WindowDays(res.w) = 7
        /\ (res.code = "30d" /\ DailyMode) => WindowDays(res.pw) = 30 /\ WindowDays(res.w) = 30
        /\ res.code = "ty" => WindowDays(res.pw) = WindowDays(res.w)
        /\ (res.code = "30d" /\ ~DailyMode) =>
              res.pw.dtf = AddDate(res.w.dtf, 0, -1, 0) /\ WindowDays(res.pw) \in 28..31
        /\ res.code = "q" =>
              res.pw.dtf = AddDate(res.w.dtf, 0, -3, 0) /\ WindowDays(res.pw) \in 89..92
        /\ res.code = "y" =>
              res.pw.dtf = AddDate(res.w.dtf, -1, 0, 0) /\ WindowDays(res.pw) \in 365..366
        /\ res.code = "2y" =>
              res.pw.dtf = AddDate(res.w.dtf, -2, 0, 0) /\ WindowDays(res.pw) \in 730..731

\* C10 witness: the calendar-month pair 30d/30dp resolved in a month whose
\* two preceding months differ in length
C10_Witness ==
    /\ res.phase = "pair"
    /\ res.code = "30d"
    /\ ~DailyMode
    /\ res.pw.dtt = res.w.dtf
    /\ WindowDays(res.pw) # WindowDays(res.w)

====
